---- MODULE Spec2Model ----
(***************************************************************************)
(* Model of the Tier 2 audit workflow engine of zeronova-lab-mcp            *)
(* (src/tools/tier2/workflow-runner.ts): provider de-duplication, the       *)
(* deadline-bounded sequential dispatch loop built on Promise.race, item    *)
(* evaluation, scoring and report assembly; with the progress wrapper of    *)
(* src/index.ts, the request limiter of src/rate-limiter.ts and the retry   *)
(* of src/client.ts.                                                        *)
(*                                                                          *)
(* Strings of the source are written as sequences of tokens so that         *)
(* String.prototype.includes can be computed; the Japanese literals are     *)
(* transliterated to ASCII tokens.                                          *)
(***************************************************************************)
EXTENDS Integers, Sequences, FiniteSets, TLC

VARIABLES
  pc,               \* position of the async function runWorkflow
  checkItems,       \* argument: the checklist
  hasOnProgress,    \* argument onProgress was supplied
  hasSendProgress,  \* argument sendProgress was supplied
  now,              \* Date.now()
  workflowDeadline, \* startTime + WORKFLOW_TIMEOUT_MS
  toolsToExecute,   \* executionOrder filtered by requiredTools
  toolResults,      \* CollectedToolResults
  i,                \* loop index (0-based as in the source)
  remainingMs,      \* value read at the top of the iteration
  timerAt,          \* expiry time of the pending setTimeout, -1 if none
  inFlight,         \* loop indexes whose executeTier1Tool promise is unsettled
  localLog,         \* messages delivered to onProgress
  sentEvents,       \* calls made to sendProgress
  report,           \* returned AuditReport
  thrownBy,         \* origin of the rejection of runWorkflow
  invoked,          \* history: number of invocations per provider
  invocationOrder,  \* history: providers in order of invocation
  skippedBy,        \* history: loop index -> which skip loop marked it
  timedOutAt,       \* history: loop index whose race the timer won, -1
  raceResult,       \* history: loop index -> value Promise.race resolved to
  lateResult,       \* history: loop index -> value of an orphaned promise
  turnAt,           \* history: loop index -> time its iteration began
  viaBuildSendProgress, \* sendProgress was made by buildSendProgress
  sinkFailed,       \* history: a call of the notification sender failed
  maxRequests,      \* RateLimiter.config.maxRequests
  windowMs,         \* RateLimiter.config.windowMs
  windows,          \* RateLimiter.windows: tool name -> timestamps
  limiterNow,       \* Date.now() as RateLimiter.check reads it
  checkLog,         \* history: every call of check, with its answer
  fetchPc,          \* position of the async function fetchApi
  fetchNow,         \* Date.now() during fetchApi
  wakeAt,           \* expiry time of the timer of sleep, -1 if none
  attempts,         \* history: the calls of fetchApiOnce and how each ended
  fetchOutcome      \* settlement of the promise of fetchApi

limiterVars == <<maxRequests, windowMs, windows, limiterNow, checkLog>>

clientVars == <<fetchPc, fetchNow, wakeAt, attempts, fetchOutcome>>

otherVars == <<limiterVars, clientVars>>

workflowVars ==
  <<pc, checkItems, hasOnProgress, hasSendProgress, now,
    workflowDeadline, toolsToExecute, toolResults, i, remainingMs,
    timerAt, inFlight, localLog, sentEvents, report, thrownBy,
    invoked, invocationOrder, skippedBy, timedOutAt, raceResult,
    lateResult, turnAt, viaBuildSendProgress, sinkFailed>>

vars == <<workflowVars, limiterVars, clientVars>>

(***************************************************************************)
(* Bounds of the model                                                      *)
(***************************************************************************)
MaxItems == 2
TickMs == 30000
MaxNow == 60000

(***************************************************************************)
(* Constants and pure helpers of workflow-runner.ts                         *)
(***************************************************************************)
WORKFLOW_TIMEOUT_MS == 60000

Tier1ToolName ==
  {"ogp", "headings", "links", "speed", "alt", "siteConfig",
   "securityHeaders", "cache", "schema", "redirect", "image"}

\* the providers in the key order of TOOL_DISPLAY_NAMES (lines 50-62)
executionOrder_DisplayOrder ==
  <<"ogp", "headings", "links", "speed", "alt", "siteConfig",
    "securityHeaders", "cache", "schema", "redirect", "image">>

\* lines 605-617
executionOrder ==
  <<"ogp", "headings", "alt", "links", "siteConfig", "securityHeaders",
    "cache", "schema", "redirect", "image", "speed">>

Null == [null |-> TRUE]

SkipMessage == <<"workflow", "timeout(60s)", "execution skipped">>
ExceededMessage == <<"workflow", "timeout(60s)", "exceeded">>
TimeoutMarker == <<"timeout(60s)">>
UnknownErrorMessage == <<"Unknown error">>
ToolNotRunMessage == <<"tool was not executed">>
ManualDetail == <<"manual check required">>
NoEvaluateDetail == <<"evaluate undefined">>

\* String.prototype.includes on token sequences
Includes(s, sub) ==
  \E k \in 0..(Len(s) - Len(sub)) : SubSeq(s, k + 1, k + Len(sub)) = sub

HasError(result) == "error" \in DOMAIN result

\* line 680: "error" in result && result.error.includes(marker)
IsWorkflowTimeout(result) ==
  HasError(result) /\ Includes(result.error, TimeoutMarker)

\* the loop over checkItems left after its first item
requiredTools_FirstItemOnly(items) ==
  {items[k].tier1Tool : k \in {n \in 1..Len(items) :
      n = 1 /\ items[n].autoVerifiable /\ items[n].tier1Tool # "none"}}

\* lines 597-602
requiredTools(items) ==
  {items[k].tier1Tool : k \in {n \in 1..Len(items) :
      items[n].autoVerifiable /\ items[n].tier1Tool # "none"}}

\* the providers collected in an array in checklist order, without the Set
FilterOrder_NoDedup(items) ==
  LET sel == SelectSeq(items, LAMBDA item :
                 item.autoVerifiable /\ item.tier1Tool # "none")
  IN  [k \in 1..Len(sel) |-> sel[k].tier1Tool]

\* line 618
FilterOrder(items) ==
  SelectSeq(executionOrder, LAMBDA t : t \in requiredTools(items))

\* lines 621-633
EmptyToolResults == [t \in Tier1ToolName |-> Null]

\* executeTier1Tool without its try/catch: the provider's rejection propagates
executeTier1Tool_NoCatch(outcome) ==
  IF outcome.kind = "resolve"
    THEN [state |-> "fulfilled", value |-> [data |-> outcome.data]]
    ELSE [state |-> "rejected",
          value |-> [error |-> IF outcome.isError THEN outcome.message
                                ELSE UnknownErrorMessage]]

\* executeTier1Tool: the settlement of its promise for a provider outcome
executeTier1Tool(outcome) ==
  IF outcome.kind = "resolve"
    THEN [state |-> "fulfilled", value |-> [data |-> outcome.data]]
    ELSE [state |-> "fulfilled",
          value |-> [error |-> IF outcome.isError THEN outcome.message
                                ELSE UnknownErrorMessage]]

(***************************************************************************)
(* Evaluation, scoring and report assembly                                  *)
(***************************************************************************)

\* checklist-data.ts getOgpData .. getAltData
getData(results, tool) ==
  IF results[tool] = Null \/ HasError(results[tool])
    THEN Null
    ELSE results[tool].data

\* checklist-data.ts toolError
toolError(tool) ==
  [status |-> "error", detail |-> <<tool, "data fetch failed">>]

\* An evaluation function of checklist-data.ts (evalAltAttributes and the
\* like): it reads the data of its tool and derives a verdict from it.  The
\* typed payload is abstracted to the verdict it leads to.
\* Each function reads one provider: the one of its item ("grade"), or
\* results.ogp whatever item it is attached to ("ogp", as evalMetaTitle).
ReadsTool(item) == IF item.evaluate = "ogp" THEN "ogp" ELSE item.tier1Tool

evaluate(item, results) ==
  LET d == getData(results, ReadsTool(item))
  IN  IF d = Null THEN toolError(ReadsTool(item))
      ELSE [status |-> d.grade, detail |-> <<ReadsTool(item), d.grade>>]

\* CheckItemDefinition.evaluate is any function of the collected results; one
\* that raises an exception when it is called is kind "throws"
evaluateThrows(item) == item.evaluate = "throws"

\* the fields of evaluate's result not spread into the item: the detail is
\* replaced by the label
CheckItemResult_DetailFromLabel(item, st, dt) ==
  [id |-> item.id, category |-> item.category, label |-> item.label,
   status |-> st, detail |-> item.label]

\* lines 698-704, 709-715, 720-729, 734-739: the object the callback returns
CheckItemResult(item, st, dt) ==
  [id |-> item.id, category |-> item.category, label |-> item.label,
   status |-> st, detail |-> dt]

\* the failure of the provider reported with the fixed text in every case
ErrorDetail_FixedText(toolResult) == ToolNotRunMessage

\* lines 726-728
ErrorDetail(toolResult) ==
  IF toolResult # Null THEN toolResult.error ELSE ToolNotRunMessage

\* the test for a missing evaluate or tier1Tool made before the test for a
\* manual item
EvaluateItem_ManualLast(item, results) ==
  IF item.evaluate = "none" \/ item.tier1Tool = "none"
    THEN CheckItemResult(item, "skipped", NoEvaluateDetail)
  ELSE IF ~item.autoVerifiable
    THEN CheckItemResult(item, "manual", ManualDetail)
  ELSE LET toolResult == results[item.tier1Tool]
       IN  IF toolResult = Null \/ HasError(toolResult)
             THEN CheckItemResult(item, "error", ErrorDetail(toolResult))
             ELSE LET evalResult == evaluate(item, results)
                  IN  CheckItemResult(item, evalResult.status,
                                      evalResult.detail)

\* lines 695-740: the callback of checkItems.map
EvaluateItem(item, results) ==
  IF ~item.autoVerifiable
    THEN CheckItemResult(item, "manual", ManualDetail)
  ELSE IF item.evaluate = "none" \/ item.tier1Tool = "none"
    THEN CheckItemResult(item, "skipped", NoEvaluateDetail)
  ELSE LET toolResult == results[item.tier1Tool]
       IN  IF toolResult = Null \/ HasError(toolResult)
             THEN CheckItemResult(item, "error", ErrorDetail(toolResult))
             ELSE LET evalResult == evaluate(item, results)
                  IN  CheckItemResult(item, evalResult.status,
                                      evalResult.detail)

\* the map taken over the auto-verifiable definitions only
EvaluateAll_AutoOnly(items, results) ==
  LET auto == SelectSeq(items, LAMBDA item : item.autoVerifiable)
  IN  [k \in 1..Len(auto) |-> EvaluateItem(auto[k], results)]

EvaluateAll(items, results) ==
  [k \in 1..Len(items) |-> EvaluateItem(items[k], results)]

\* lines 697-733: the map callback gets as far as calling item.evaluate
ReachesEvaluate(item, results) ==
  /\ item.autoVerifiable
  /\ item.evaluate # "none" /\ item.tier1Tool # "none"
  /\ results[item.tier1Tool] # Null
  /\ ~HasError(results[item.tier1Tool])

\* line 733 is inside no try block: an exception of item.evaluate ends the
\* map, and with it runWorkflow
EvaluationThrows(items, results) ==
  \E k \in 1..Len(items) :
    ReachesEvaluate(items[k], results) /\ evaluateThrows(items[k])

\* the last match taken in the place of the first
FindById_Last(evaluatedItems, id) ==
  LET hits == {k \in 1..Len(evaluatedItems) : evaluatedItems[k].id = id}
  IN  IF hits = {} THEN Null
      ELSE evaluatedItems[CHOOSE k \in hits : \A m \in hits : k >= m]

\* Array.prototype.find((e) => e.id === id): first match or undefined (Null)
FindById(evaluatedItems, id) ==
  LET hits == {k \in 1..Len(evaluatedItems) : evaluatedItems[k].id = id}
  IN  IF hits = {} THEN Null
      ELSE evaluatedItems[CHOOSE k \in hits : \A m \in hits : k <= m]

\* Math.floor in the place of Math.round
MathRound_Floor(n, d) == n \div d

\* Math.round of the rational n / d, d > 0 (half rounds up)
MathRound(n, d) == (2 * n + d) \div (2 * d)

\* the filter of lines 746-748 without its autoVerifiable test
scorableItems_IncludesManual(items) ==
  SelectSeq(items, LAMBDA item :
    item.evaluate # "none" /\ item.tier1Tool # "none")

\* lines 746-748
scorableItems(items) ==
  SelectSeq(items, LAMBDA item :
    item.autoVerifiable /\ item.evaluate # "none" /\ item.tier1Tool # "none")

\* the filter of lines 749-752 left out: every scorable item counts
evaluableItems_KeepErrors(items, evaluatedItems) == scorableItems(items)

\* lines 749-752
evaluableItems(items, evaluatedItems) ==
  SelectSeq(scorableItems(items), LAMBDA item :
    LET evaluated == FindById(evaluatedItems, item.id)
    IN  evaluated # Null /\ evaluated.status # "error")

RECURSIVE SumWeights(_)
\* line 753
SumWeights(seq) ==
  IF seq = <<>> THEN 0 ELSE Head(seq).weight + SumWeights(Tail(seq))

RECURSIVE Earned(_, _)
\* lines 755-762
Earned(seq, evaluatedItems) ==
  IF seq = <<>> THEN 0
  ELSE LET item == Head(seq)
           evaluated == FindById(evaluatedItems, item.id)
           add == IF evaluated = Null THEN 0
                  ELSE IF evaluated.status = "pass" THEN item.weight
                  ELSE IF evaluated.status = "warn"
                    THEN MathRound(item.weight, 2)
                  ELSE 0
       IN  add + Earned(Tail(seq), evaluatedItems)

\* a checklist with nothing to evaluate scored as perfect
Score_EmptyIsPerfect(items, evaluatedItems) ==
  LET ev == evaluableItems(items, evaluatedItems)
      maxScore == SumWeights(ev)
      earnedScore == Earned(ev, evaluatedItems)
  IN  IF maxScore > 0 THEN MathRound(earnedScore * 100, maxScore) ELSE 100

\* line 764
Score(items, evaluatedItems) ==
  LET ev == evaluableItems(items, evaluatedItems)
      maxScore == SumWeights(ev)
      earnedScore == Earned(ev, evaluatedItems)
  IN  IF maxScore > 0 THEN MathRound(earnedScore * 100, maxScore) ELSE 0

\* lines 194-203 and the per-tool cases of buildToolResultSummary
buildToolResultSummary(tool, result) ==
  IF result = Null
    THEN [status |-> "skipped", details |-> <<"Not required">>]
  ELSE IF HasError(result)
    THEN [status |-> "error", details |-> result.error]
  ELSE [status |-> result.data.grade, details |-> <<tool, "details">>]

CountStatus(evaluatedItems, st) ==
  Cardinality({k \in 1..Len(evaluatedItems) : evaluatedItems[k].status = st})

\* the unevaluated part counting the skipped items as well
buildSummary_SkippedAsUnevaluated(evaluatedItems, score) ==
  LET passed == CountStatus(evaluatedItems, "pass")
      evaluated == Cardinality({k \in 1..Len(evaluatedItems) :
                      evaluatedItems[k].status \notin
                        {"manual", "skipped", "error"}})
      failures == CountStatus(evaluatedItems, "fail")
      errors == CountStatus(evaluatedItems, "error")
                  + CountStatus(evaluatedItems, "skipped")
      manualCount == CountStatus(evaluatedItems, "manual")
  IN  <<[part |-> "score", evaluated |-> evaluated, passed |-> passed,
         score |-> score]>>
      \o (IF failures > 0
            THEN <<[part |-> "action needed", count |-> failures]>>
            ELSE <<>>)
      \o (IF errors > 0
            THEN <<[part |-> "unevaluated", count |-> errors]>>
            ELSE <<>>)
      \o (IF manualCount > 0
            THEN <<[part |-> "manual", count |-> manualCount]>>
            ELSE <<>>)

\* buildSummary: the parts joined into the summary string
buildSummary(evaluatedItems, score) ==
  LET passed == CountStatus(evaluatedItems, "pass")
      evaluated == Cardinality({k \in 1..Len(evaluatedItems) :
                      evaluatedItems[k].status \notin
                        {"manual", "skipped", "error"}})
      failures == CountStatus(evaluatedItems, "fail")
      errors == CountStatus(evaluatedItems, "error")
      manualCount == CountStatus(evaluatedItems, "manual")
  IN  <<[part |-> "score", evaluated |-> evaluated, passed |-> passed,
         score |-> score]>>
      \o (IF failures > 0
            THEN <<[part |-> "action needed", count |-> failures]>>
            ELSE <<>>)
      \o (IF errors > 0
            THEN <<[part |-> "unevaluated", count |-> errors]>>
            ELSE <<>>)
      \o (IF manualCount > 0
            THEN <<[part |-> "manual", count |-> manualCount]>>
            ELSE <<>>)

\* the results section built over the whole execution order instead of the
\* scheduled providers
BuildReport_AllTools(items, tools, results) ==
  LET evaluatedItems == EvaluateAll(items, results)
      score == Score(items, evaluatedItems)
  IN  [score |-> score,
       summary |-> buildSummary(evaluatedItems, score),
       results |-> [t \in Tier1ToolName |->
                      buildToolResultSummary(t, results[t])],
       checklist |->
         [total |-> Len(evaluatedItems),
          passed |-> CountStatus(evaluatedItems, "pass"),
          warned |-> CountStatus(evaluatedItems, "warn"),
          failed |-> CountStatus(evaluatedItems, "fail"),
          errors |-> CountStatus(evaluatedItems, "error"),
          manual |-> CountStatus(evaluatedItems, "manual"),
          items |-> evaluatedItems]]

\* lines 694-790: the returned AuditReport
BuildReport(items, tools, results) ==
  LET evaluatedItems == EvaluateAll(items, results)
      score == Score(items, evaluatedItems)
  IN  [score |-> score,
       summary |-> buildSummary(evaluatedItems, score),
       results |-> [t \in {tools[k] : k \in 1..Len(tools)} |->
                      buildToolResultSummary(t, results[t])],
       checklist |->
         [total |-> Len(evaluatedItems),
          passed |-> CountStatus(evaluatedItems, "pass"),
          warned |-> CountStatus(evaluatedItems, "warn"),
          failed |-> CountStatus(evaluatedItems, "fail"),
          errors |-> CountStatus(evaluatedItems, "error"),
          manual |-> CountStatus(evaluatedItems, "manual"),
          items |-> evaluatedItems]]

NoReport == [none |-> TRUE]

(***************************************************************************)
(* Inputs of the model                                                      *)
(***************************************************************************)
Item(id, weight, auto, tool, ev) ==
  [id |-> id, category |-> "category", label |-> <<"label", id>>,
   weight |-> weight, autoVerifiable |-> auto, tier1Tool |-> tool,
   evaluate |-> ev]

\* CheckItemDefinitions the checklists are built from ("none": field absent)
ItemPool ==
  { Item("performance", 10, TRUE, "speed", "grade"),
    Item("lcp", 5, TRUE, "speed", "grade"),
    Item("links", 10, TRUE, "links", "grade"),
    Item("cache", 5, TRUE, "cache", "none"),
    Item("manual-links", 5, FALSE, "links", "none") }

Checklists == UNION {[1..n -> ItemPool] : n \in 0..MaxItems}

Grades == {"pass", "warn", "fail"}

NetworkErrorMessage == <<"network error">>
UpstreamTimeoutMessage == <<"upstream", "timeout(60s)">>

\* What a provider (client.ts checkOgp .. checkImageOptimization) can do:
\* resolve with typed data, reject with an Error, or throw a non-Error value
ProviderOutcomes ==
  {[kind |-> "resolve", data |-> [grade |-> g], isError |-> FALSE,
    message |-> <<>>] : g \in Grades}
  \cup {[kind |-> "reject", data |-> Null, isError |-> TRUE, message |-> m] :
          m \in {NetworkErrorMessage, UpstreamTimeoutMessage}}
  \cup {[kind |-> "reject", data |-> Null, isError |-> FALSE,
         message |-> <<>>]}

\* settlement of the promise returned by sendProgress; `await undefined`
\* always resumes normally
SinkOutcomes(present) ==
  IF present THEN {"resolved", "rejected"} ELSE {"resolved"}

totalTools == Len(toolsToExecute)

\* toolsToExecute[j], 0-based as in the source
ToolAt(j) == toolsToExecute[j + 1]

(***************************************************************************)
(* The limiter and the client while nothing calls them                      *)
(***************************************************************************)
\* index.ts line 44: the limiter as constructed, no request seen yet
LimiterIdle ==
  /\ maxRequests = 10
  /\ windowMs = 60000
  /\ windows = <<>>
  /\ limiterNow = 0
  /\ checkLog = <<>>

\* no call of fetchApi under way
ClientIdle ==
  /\ fetchPc = "idle"
  /\ fetchNow = 0
  /\ wakeAt = -1
  /\ attempts = <<>>
  /\ fetchOutcome = Null

(***************************************************************************)
(* runWorkflow                                                              *)
(***************************************************************************)
\* runWorkflow not called yet
WorkflowIdle ==
  /\ pc = "idle"
  /\ checkItems = <<>>
  /\ hasOnProgress = FALSE
  /\ hasSendProgress = FALSE
  /\ now = 0
  /\ workflowDeadline = 0
  /\ toolsToExecute = <<>>
  /\ toolResults = EmptyToolResults
  /\ i = 0
  /\ remainingMs = 0
  /\ timerAt = -1
  /\ inFlight = {}
  /\ localLog = <<>>
  /\ sentEvents = <<>>
  /\ report = NoReport
  /\ thrownBy = "nothing"
  /\ invoked = [t \in Tier1ToolName |-> 0]
  /\ invocationOrder = <<>>
  /\ skippedBy = <<>>
  /\ timedOutAt = -1
  /\ raceResult = <<>>
  /\ lateResult = <<>>
  /\ turnAt = <<>>
  /\ viaBuildSendProgress = FALSE
  /\ sinkFailed = FALSE

Init == WorkflowIdle /\ LimiterIdle /\ ClientIdle

\* the catch of the returned function left out
buildSendProgress_NoCatch(settled) == settled

\* index.ts buildSendProgress: the function returned for a progressToken
\* awaits sendFn in a try block with an empty catch, so its promise resolves
\* however the call of sendFn ends
buildSendProgress(settled) == "resolved"

\* what the `await sendProgress?.(...)` of runWorkflow sees when the call of
\* the notification sender ends as `settled`
SendProgressSettles(settled) ==
  IF viaBuildSendProgress THEN buildSendProgress(settled) ELSE settled

onProgress(log, message) == IF hasOnProgress THEN Append(log, message) ELSE log

sendProgress(events, progress, total, message) ==
  IF hasSendProgress
    THEN Append(events, [progress |-> progress, total |-> total,
                         message |-> message])
    ELSE events

\* lines 593-638: entry up to the first await
runWorkflow(items, onP, sendP, built) ==
  /\ pc = "idle"
  /\ viaBuildSendProgress' = built
  /\ checkItems' = items
  /\ hasOnProgress' = onP
  /\ hasSendProgress' = sendP
  /\ workflowDeadline' = now + WORKFLOW_TIMEOUT_MS
  /\ toolsToExecute' = FilterOrder(items)
  /\ toolResults' = EmptyToolResults
  /\ LET startMsg == [kind |-> "start", n |-> Len(FilterOrder(items))]
     IN  /\ localLog' = IF onP THEN <<startMsg>> ELSE <<>>
         /\ sentEvents' =
              IF sendP
                THEN <<[progress |-> 0, total |-> Len(FilterOrder(items)) + 1,
                        message |-> startMsg]>>
                ELSE <<>>
  /\ pc' = "awaitStart"
  /\ UNCHANGED <<otherVars, sinkFailed, now, i, remainingMs, timerAt,
                 inFlight, report, thrownBy, invoked, invocationOrder,
                 skippedBy, timedOutAt, raceResult, lateResult, turnAt>>

\* line 638: the await of sendProgress(0, ...) settles
AwaitStartResumes(settled) ==
  /\ pc = "awaitStart"
  /\ sinkFailed' = (sinkFailed \/ settled = "rejected")
  /\ IF SendProgressSettles(settled) = "rejected"
       THEN pc' = "thrown" /\ thrownBy' = "sendProgress" /\ i' = i
       ELSE pc' = "loop" /\ i' = 0 /\ thrownBy' = thrownBy
  /\ UNCHANGED <<otherVars, viaBuildSendProgress, checkItems,
                 hasOnProgress, hasSendProgress, now,
                 workflowDeadline, toolsToExecute, toolResults, remainingMs,
                 timerAt, inFlight, localLog, sentEvents, report, invoked,
                 invocationOrder, skippedBy, timedOutAt, raceResult,
                 lateResult, turnAt>>

SkipError == [error |-> SkipMessage]

\* the skip loops starting one index too late
MarkSkipped_OffByOne(results, from) ==
  [t \in Tier1ToolName |->
     IF \E j \in (from + 1)..(totalTools - 1) : ToolAt(j) = t
       THEN [error |-> SkipMessage] ELSE results[t]]

\* lines 646-650 and 681-685: mark toolsToExecute[from .. totalTools-1]
MarkSkipped(results, from) ==
  [t \in Tier1ToolName |->
     IF \E j \in from..(totalTools - 1) : ToolAt(j) = t
       THEN SkipError ELSE results[t]]

RecordSkipped(from, why) ==
  [j \in (DOMAIN skippedBy) \cup (from..(totalTools - 1)) |->
     IF j \in from..(totalTools - 1) THEN why ELSE skippedBy[j]]

\* the deadline test with < in place of <=
DeadlinePassed_Strict(remaining) == remaining < 0

\* line 645
DeadlinePassed(remaining) == remaining <= 0

\* the progress of the event of a provider taken as its loop index
ProgressOf_ZeroBased(j) == j

\* line 656: the progress of the event sent for toolsToExecute[j]
ProgressOf(j) == j + 1

\* the total taken as what is left to do
EventTotal_Remaining == totalTools + 1 - i

\* lines 656, 692 (and 638): the total of every event
EventTotal == totalTools + 1

\* the completion event numbered with the count of providers
CompletionProgress_Count == totalTools

\* line 692: the progress of the completion event
CompletionProgress == totalTools + 1

\* lines 640-656: loop test, deadline check, progress message up to the await
LoopTop ==
  /\ pc = "loop"
  /\ turnAt' = IF i >= totalTools THEN turnAt
               ELSE [j \in (DOMAIN turnAt) \cup {i} |->
                       IF j = i THEN now ELSE turnAt[j]]
  /\ IF i >= totalTools
       THEN /\ pc' = "afterLoop"
            /\ UNCHANGED <<toolResults, remainingMs, localLog, sentEvents,
                           skippedBy>>
       ELSE IF DeadlinePassed(workflowDeadline - now)
         THEN /\ toolResults' = MarkSkipped(toolResults, i)
              /\ skippedBy' = RecordSkipped(i, "deadline passed")
              /\ pc' = "afterLoop"
              /\ UNCHANGED <<remainingMs, localLog, sentEvents>>
         ELSE /\ remainingMs' = workflowDeadline - now
              /\ LET progressMsg == [kind |-> "progress", n |-> i + 1,
                                     of |-> totalTools, tool |-> ToolAt(i)]
                 IN  /\ localLog' = onProgress(localLog, progressMsg)
                     /\ sentEvents' = sendProgress(sentEvents, ProgressOf(i),
                                                   EventTotal, progressMsg)
              /\ pc' = "awaitProgress"
              /\ UNCHANGED <<toolResults, skippedBy>>
  /\ UNCHANGED <<otherVars, viaBuildSendProgress, sinkFailed, checkItems,
                 hasOnProgress, hasSendProgress, now,
                 workflowDeadline, toolsToExecute, i, timerAt, inFlight,
                 report, thrownBy, invoked, invocationOrder, timedOutAt,
                 raceResult, lateResult>>

\* the provider call started without awaiting Promise.race: the loop goes
\* on to the next provider while the call is outstanding
AwaitProgressResumes_NoAwait(settled) ==
  /\ pc = "awaitProgress"
  /\ sinkFailed' = (sinkFailed \/ settled = "rejected")
  /\ IF SendProgressSettles(settled) = "rejected"
       THEN /\ pc' = "thrown" /\ thrownBy' = "sendProgress"
            /\ UNCHANGED <<timerAt, inFlight, invoked, invocationOrder, i>>
       ELSE /\ timerAt' = now + remainingMs
            /\ inFlight' = inFlight \cup {i}
            /\ invoked' = [invoked EXCEPT ![ToolAt(i)] = @ + 1]
            /\ invocationOrder' = Append(invocationOrder, ToolAt(i))
            /\ pc' = "loop"
            /\ i' = i + 1
            /\ thrownBy' = thrownBy
  /\ UNCHANGED <<otherVars, viaBuildSendProgress, checkItems,
                 hasOnProgress, hasSendProgress, now,
                 workflowDeadline, toolsToExecute, toolResults, remainingMs,
                 localLog, sentEvents, report, skippedBy, timedOutAt,
                 raceResult, lateResult, turnAt>>

\* lines 656-670: the await of sendProgress(i + 1, ...) settles; the timer is
\* armed with the remainingMs read before the await and the provider is called
AwaitProgressResumes(settled) ==
  /\ pc = "awaitProgress"
  /\ sinkFailed' = (sinkFailed \/ settled = "rejected")
  /\ IF SendProgressSettles(settled) = "rejected"
       THEN /\ pc' = "thrown" /\ thrownBy' = "sendProgress"
            /\ UNCHANGED <<timerAt, inFlight, invoked, invocationOrder>>
       ELSE /\ timerAt' = now + remainingMs
            /\ inFlight' = inFlight \cup {i}
            /\ invoked' = [invoked EXCEPT ![ToolAt(i)] = @ + 1]
            /\ invocationOrder' = Append(invocationOrder, ToolAt(i))
            /\ pc' = "race"
            /\ thrownBy' = thrownBy
  /\ UNCHANGED <<otherVars, viaBuildSendProgress, checkItems,
                 hasOnProgress, hasSendProgress, now,
                 workflowDeadline, toolsToExecute, toolResults, i,
                 remainingMs, localLog, sentEvents, report, skippedBy,
                 timedOutAt, raceResult, lateResult, turnAt>>

\* formatToolCompletion
formatToolCompletion(tool, result) ==
  IF HasError(result)
    THEN [kind |-> "tool error", tool |-> tool, text |-> result.error]
    ELSE [kind |-> "tool ok", tool |-> tool, text |-> <<result.data.grade>>]

\* the completion line written after the timeout test and its break
RaceContinuation_LineAfterBreak(result) ==
  /\ timerAt' = -1
  /\ raceResult' = [j \in (DOMAIN raceResult) \cup {i} |->
                      IF j = i THEN result ELSE raceResult[j]]
  /\ IF IsWorkflowTimeout(result)
       THEN /\ toolResults' =
                 MarkSkipped([toolResults EXCEPT ![ToolAt(i)] = result], i + 1)
            /\ skippedBy' = RecordSkipped(i + 1, "timeout result")
            /\ localLog' = localLog
            /\ pc' = "afterLoop"
            /\ i' = i
       ELSE /\ toolResults' = [toolResults EXCEPT ![ToolAt(i)] = result]
            /\ localLog' =
                 onProgress(localLog, formatToolCompletion(ToolAt(i), result))
            /\ skippedBy' = skippedBy
            /\ pc' = "loop"
            /\ i' = i + 1

\* lines 671-688: continuation of `await Promise.race(...)` with its value
RaceContinuation(result) ==
  /\ timerAt' = -1
  /\ raceResult' = [j \in (DOMAIN raceResult) \cup {i} |->
                      IF j = i THEN result ELSE raceResult[j]]
  /\ localLog' = onProgress(localLog, formatToolCompletion(ToolAt(i), result))
  /\ IF IsWorkflowTimeout(result)
       THEN /\ toolResults' =
                 MarkSkipped([toolResults EXCEPT ![ToolAt(i)] = result], i + 1)
            /\ skippedBy' = RecordSkipped(i + 1, "timeout result")
            /\ pc' = "afterLoop"
            /\ i' = i
       ELSE /\ toolResults' = [toolResults EXCEPT ![ToolAt(i)] = result]
            /\ skippedBy' = skippedBy
            /\ pc' = "loop"
            /\ i' = i + 1

\* the provider call of the current iteration settles before the timer
ProviderSettles(outcome) ==
  /\ pc = "race"
  /\ i \in inFlight
  /\ inFlight' = inFlight \ {i}
  /\ LET settlement == executeTier1Tool(outcome)
     IN  IF settlement.state = "rejected"
           THEN /\ pc' = "thrown" /\ thrownBy' = "provider"
                /\ UNCHANGED <<timerAt, raceResult, localLog, toolResults,
                               skippedBy, i>>
           ELSE /\ RaceContinuation(settlement.value)
                /\ thrownBy' = thrownBy
  /\ UNCHANGED <<otherVars, viaBuildSendProgress, sinkFailed, checkItems,
                 hasOnProgress, hasSendProgress, now,
                 workflowDeadline, toolsToExecute, remainingMs, sentEvents,
                 report, invoked, invocationOrder, timedOutAt, lateResult,
                 turnAt>>

\* the provider call awaited alone, not raced against the timer
TimeoutFires_NotRaced == FALSE /\ UNCHANGED vars

\* lines 660-665: the timer armed for the current iteration fires first
TimeoutFires ==
  /\ pc = "race"
  /\ timerAt >= 0
  /\ now >= timerAt
  /\ timedOutAt' = i
  /\ RaceContinuation([error |-> ExceededMessage])
  /\ UNCHANGED <<otherVars, viaBuildSendProgress, sinkFailed, checkItems,
                 hasOnProgress, hasSendProgress, now,
                 workflowDeadline, toolsToExecute, remainingMs, inFlight,
                 sentEvents, report, thrownBy, invoked, invocationOrder,
                 lateResult, turnAt>>

\* lines 690-692: completion message up to the await
AfterLoop ==
  /\ pc = "afterLoop"
  /\ LET completionMsg == [kind |-> "complete"]
     IN  /\ localLog' = onProgress(localLog, completionMsg)
         /\ sentEvents' = sendProgress(sentEvents, CompletionProgress,
                                       EventTotal, completionMsg)
  /\ pc' = "awaitComplete"
  /\ UNCHANGED <<otherVars, viaBuildSendProgress, sinkFailed, checkItems,
                 hasOnProgress, hasSendProgress, now,
                 workflowDeadline, toolsToExecute, toolResults, i,
                 remainingMs, timerAt, inFlight, report, thrownBy, invoked,
                 invocationOrder, skippedBy, timedOutAt, raceResult,
                 lateResult, turnAt>>

\* lines 692-790: the last await settles; evaluation, score, report, return
AwaitCompleteResumes(settled) ==
  /\ pc = "awaitComplete"
  /\ sinkFailed' = (sinkFailed \/ settled = "rejected")
  /\ IF SendProgressSettles(settled) = "rejected"
       THEN pc' = "thrown" /\ thrownBy' = "sendProgress" /\ report' = report
       ELSE IF EvaluationThrows(checkItems, toolResults)
         THEN pc' = "thrown" /\ thrownBy' = "evaluate" /\ report' = report
         ELSE /\ report' = BuildReport(checkItems, toolsToExecute, toolResults)
              /\ pc' = "done"
              /\ thrownBy' = thrownBy
  /\ UNCHANGED <<otherVars, viaBuildSendProgress, checkItems,
                 hasOnProgress, hasSendProgress, now,
                 workflowDeadline, toolsToExecute, toolResults, i,
                 remainingMs, timerAt, inFlight, localLog, sentEvents,
                 invoked, invocationOrder, skippedBy, timedOutAt, raceResult,
                 lateResult, turnAt>>

Suspended == pc \in {"awaitStart", "awaitProgress", "race", "awaitComplete"}

\* a late completion that stores its value, as a `.then` handler writing
\* toolResults[tool] would
LateSettle_Writes(j, outcome) ==
  /\ j \in inFlight
  /\ ~(pc = "race" /\ j = i)
  /\ pc \in {"awaitStart", "awaitProgress", "race", "awaitComplete", "done",
             "thrown"}
  /\ inFlight' = inFlight \ {j}
  /\ lateResult' = [k \in (DOMAIN lateResult) \cup {j} |->
                      IF k = j THEN executeTier1Tool(outcome)
                      ELSE lateResult[k]]
  /\ toolResults' =
       [toolResults EXCEPT ![ToolAt(j)] = executeTier1Tool(outcome).value]
  /\ UNCHANGED <<otherVars, viaBuildSendProgress, sinkFailed, pc,
                 checkItems, hasOnProgress, hasSendProgress, now,
                 workflowDeadline, toolsToExecute, i, remainingMs, timerAt,
                 localLog, sentEvents, report, thrownBy, invoked,
                 invocationOrder, skippedBy, timedOutAt, raceResult, turnAt>>

\* a provider call that lost its race settles: the promise of
\* executeTier1Tool gets its value, which nothing is waiting for
LateSettle(j, outcome) ==
  /\ j \in inFlight
  /\ ~(pc = "race" /\ j = i)
  /\ Suspended \/ pc \in {"done", "thrown"}
  /\ inFlight' = inFlight \ {j}
  /\ lateResult' = [k \in (DOMAIN lateResult) \cup {j} |->
                      IF k = j THEN executeTier1Tool(outcome)
                      ELSE lateResult[k]]
  /\ UNCHANGED <<otherVars, viaBuildSendProgress, sinkFailed, pc,
                 checkItems, hasOnProgress, hasSendProgress, now,
                 workflowDeadline, toolsToExecute, toolResults, i,
                 remainingMs, timerAt, localLog, sentEvents, report,
                 thrownBy, invoked, invocationOrder, skippedBy, timedOutAt,
                 raceResult, turnAt>>

\* time passes while runWorkflow is suspended at an await (`await undefined`
\* resumes in the same turn of the event loop)
Tick ==
  /\ pc = "race" \/ (Suspended /\ hasSendProgress)
  /\ now < MaxNow \/ (pc = "race" /\ now < timerAt)
  /\ now' = now + TickMs
  /\ UNCHANGED <<otherVars, viaBuildSendProgress, sinkFailed, pc,
                 checkItems, hasOnProgress, hasSendProgress,
                 workflowDeadline, toolsToExecute, toolResults, i,
                 remainingMs, timerAt, inFlight, localLog, sentEvents,
                 report, thrownBy, invoked, invocationOrder, skippedBy,
                 timedOutAt, raceResult, lateResult, turnAt>>

\* runWorkflow called with neither sink or with both, sendProgress being a
\* function of the caller's own
SinkConfigs == {<<FALSE, FALSE, FALSE>>, <<TRUE, TRUE, FALSE>>}

Next ==
  \/ \E items \in Checklists, sinks \in SinkConfigs :
       runWorkflow(items, sinks[1], sinks[2], sinks[3])
  \/ \E settled \in SinkOutcomes(hasSendProgress) : AwaitStartResumes(settled)
  \/ LoopTop
  \/ \E settled \in SinkOutcomes(hasSendProgress) :
       AwaitProgressResumes(settled)
  \/ \E outcome \in ProviderOutcomes : ProviderSettles(outcome)
  \/ TimeoutFires
  \/ AfterLoop
  \/ \E settled \in SinkOutcomes(hasSendProgress) :
       AwaitCompleteResumes(settled)
  \/ \E j \in inFlight, outcome \in ProviderOutcomes : LateSettle(j, outcome)
  \/ Tick

Spec == Init /\ [][Next]_vars

MaxSinkItems == 2

\* the checklists of the runs that compare the two ways of supplying the
\* external sink: two providers, both scored
SinkPool ==
  { Item("performance", 10, TRUE, "speed", "grade"),
    Item("links", 10, TRUE, "links", "grade") }

SinkChecklists == UNION {[1..n -> SinkPool] : n \in 0..MaxSinkItems}

\* The handlers of index.ts (run_seo_audit and the like) pass an onProgress
\* writing to stderr and what buildSendProgress returns: undefined without a
\* progressToken, the catching function with one.  A caller of its own may
\* pass any function as sendProgress.
WrapperConfigs ==
  {<<TRUE, FALSE, FALSE>>, <<TRUE, TRUE, TRUE>>, <<TRUE, TRUE, FALSE>>}

WrapperNext ==
  \/ \E items \in SinkChecklists, sinks \in WrapperConfigs :
       runWorkflow(items, sinks[1], sinks[2], sinks[3])
  \/ \E settled \in SinkOutcomes(hasSendProgress) : AwaitStartResumes(settled)
  \/ LoopTop
  \/ \E settled \in SinkOutcomes(hasSendProgress) :
       AwaitProgressResumes(settled)
  \/ \E outcome \in ProviderOutcomes : ProviderSettles(outcome)
  \/ TimeoutFires
  \/ AfterLoop
  \/ \E settled \in SinkOutcomes(hasSendProgress) :
       AwaitCompleteResumes(settled)
  \/ \E j \in inFlight, outcome \in ProviderOutcomes : LateSettle(j, outcome)
  \/ Tick

WrapperSpec == Init /\ [][WrapperNext]_vars

\* Scheduling of the event loop: synchronous code runs on, `await undefined`
\* resumes, time passes and an armed timer fires.  Nothing forces a provider
\* call or a call of the external sink to settle.
FairSpec ==
  /\ Spec
  /\ WF_vars(LoopTop)
  /\ WF_vars(AfterLoop)
  /\ WF_vars(TimeoutFires)
  /\ WF_vars(Tick)
  /\ WF_vars(~hasSendProgress /\ AwaitStartResumes("resolved"))
  /\ WF_vars(~hasSendProgress /\ AwaitProgressResumes("resolved"))
  /\ WF_vars(~hasSendProgress /\ AwaitCompleteResumes("resolved"))

\* FairSpec for runs whose external sink settles every call made to it
SettlingSinkSpec ==
  /\ FairSpec
  /\ WF_vars(\E settled \in SinkOutcomes(hasSendProgress) :
               AwaitStartResumes(settled))
  /\ WF_vars(\E settled \in SinkOutcomes(hasSendProgress) :
               AwaitProgressResumes(settled))
  /\ WF_vars(\E settled \in SinkOutcomes(hasSendProgress) :
               AwaitCompleteResumes(settled))

(***************************************************************************)
(* Evaluation and scoring on their own: runWorkflow at its last await, for  *)
(* every checklist of a wider pool and every collection of provider results *)
(* the dispatch loop can leave behind                                       *)
(***************************************************************************)
MaxScoreItems == 2

\* CheckItemDefinitions with the features evaluation and scoring tell apart:
\* the weights of checklist-data.ts (10, 5, 3) and weight 0, manual items
\* with and without tier1Tool and evaluate, an item without evaluate, an
\* evaluate reading another provider than its item's, a throwing evaluate
ScorePool ==
  { Item("title", 10, TRUE, "ogp", "ogp"),
    Item("links", 10, TRUE, "links", "grade"),
    Item("lcp", 5, TRUE, "speed", "grade"),
    Item("favicon", 3, TRUE, "headings", "grade"),
    Item("info", 0, TRUE, "alt", "grade"),
    Item("canonical", 5, TRUE, "links", "ogp"),
    Item("contrast", 5, FALSE, "none", "none"),
    Item("manual-links", 5, FALSE, "links", "grade"),
    Item("cache", 5, TRUE, "cache", "none"),
    Item("broken", 5, TRUE, "alt", "throws") }

\* checklists of distinct definitions (ids are unique in checklist-data.ts)
ScoreChecklists ==
  UNION {{c \in [1..n -> ScorePool] :
            \A a, b \in 1..n : a # b => c[a].id # c[b].id} :
         n \in 0..MaxScoreItems}

\* what line 673 and the two skip loops store for a provider
ScoreToolResults ==
  {[data |-> [grade |-> g]] : g \in Grades}
  \cup {[error |-> m] : m \in {NetworkErrorMessage, ExceededMessage,
                               SkipMessage}}

\* lines 680-687: after a result carrying the marker every later provider
\* holds the skip error
LoopCanLeave(tools, results) ==
  \A j \in 1..Len(tools) :
    IsWorkflowTimeout(results[tools[j]]) =>
      \A m \in (j + 1)..Len(tools) : results[tools[m]] = SkipError

\* runWorkflow at line 692 with one of the given checklists and a collection
\* of results the loop can leave; the variables evaluation does not read
\* are as before the call
AtLastAwait(checklists) ==
  \E items \in checklists :
    LET tools == FilterOrder(items)
        toolSet == {tools[k] : k \in 1..Len(tools)}
    IN  \E collected \in [toolSet -> ScoreToolResults] :
          LET results == [t \in Tier1ToolName |->
                            IF t \in toolSet THEN collected[t] ELSE Null]
          IN  /\ LoopCanLeave(tools, results)
              /\ pc = "awaitComplete"
              /\ checkItems = items
              /\ hasOnProgress = FALSE
              /\ hasSendProgress = FALSE
              /\ now = 0
              /\ workflowDeadline = WORKFLOW_TIMEOUT_MS
              /\ toolsToExecute = tools
              /\ toolResults = results
              /\ i = Len(tools)
              /\ remainingMs = 0
              /\ timerAt = -1
              /\ inFlight = {}
              /\ localLog = <<>>
              /\ sentEvents = <<>>
              /\ report = NoReport
              /\ thrownBy = "nothing"
              /\ invoked = [t \in Tier1ToolName |-> 0]
              /\ invocationOrder = <<>>
              /\ skippedBy = <<>>
              /\ timedOutAt = -1
              /\ raceResult = <<>>
              /\ lateResult = <<>>
              /\ turnAt = <<>>
              /\ viaBuildSendProgress = FALSE
              /\ sinkFailed = FALSE
              /\ LimiterIdle
              /\ ClientIdle

ScoreInit == AtLastAwait(ScoreChecklists)

ScoreNext == AwaitCompleteResumes("resolved")

ScoreSpec == ScoreInit /\ [][ScoreNext]_vars

\* Checklists in which definitions may share an id: two auto items "links"
\* on different providers and a manual item "links"
SharedIdPool ==
  { Item("links", 10, TRUE, "links", "grade"),
    Item("links", 5, TRUE, "speed", "grade"),
    Item("links", 5, FALSE, "none", "none"),
    Item("lcp", 5, TRUE, "speed", "grade") }

SharedIdChecklists == UNION {[1..n -> SharedIdPool] : n \in 0..MaxScoreItems}

SharedIdInit == AtLastAwait(SharedIdChecklists)

SharedIdSpec == SharedIdInit /\ [][ScoreNext]_vars

(***************************************************************************)
(* RateLimiter (src/rate-limiter.ts)                                        *)
(***************************************************************************)
MaxRequestsCap == 2
MaxWindowMs == 2
MaxLimiterNow == 4
MaxChecks == 4

\* names check is called with (index.ts checkRateLimit)
LimiterTools == {"run_seo_audit", "check_links"}

\* the constructor with a config: any positive maxRequests and windowMs
LimiterInit ==
  /\ WorkflowIdle
  /\ ClientIdle
  /\ maxRequests \in 1..MaxRequestsCap
  /\ windowMs \in 1..MaxWindowMs
  /\ windows = <<>>
  /\ limiterNow = 0
  /\ checkLog = <<>>

\* the filter keeping the timestamp that lies exactly windowMs back
Recent_Inclusive(timestamps, windowStart) ==
  SelectSeq(timestamps, LAMBDA t : t >= windowStart)

\* line 29
Recent(timestamps, windowStart) ==
  SelectSeq(timestamps, LAMBDA t : t > windowStart)

\* Map.prototype.set
MapSet(map, key, value) ==
  [k \in (DOMAIN map) \cup {key} |-> IF k = key THEN value ELSE map[k]]

\* lines 24-39
check(toolName) ==
  /\ Len(checkLog) < MaxChecks
  /\ LET windowStart == limiterNow - windowMs
         timestamps == IF toolName \in DOMAIN windows THEN windows[toolName]
                       ELSE <<>>
         recent == Recent(timestamps, windowStart)
     IN  IF Len(recent) >= maxRequests
           THEN /\ windows' = MapSet(windows, toolName, recent)
                /\ checkLog' = Append(checkLog, [toolName |-> toolName,
                                                 at |-> limiterNow,
                                                 allowed |-> FALSE])
           ELSE /\ windows' = MapSet(windows, toolName,
                                     Append(recent, limiterNow))
                /\ checkLog' = Append(checkLog, [toolName |-> toolName,
                                                 at |-> limiterNow,
                                                 allowed |-> TRUE])
  /\ UNCHANGED <<workflowVars, clientVars, maxRequests, windowMs, limiterNow>>

\* Date.now() moves on between two calls
LimiterTick ==
  /\ limiterNow < MaxLimiterNow
  /\ limiterNow' = limiterNow + 1
  /\ UNCHANGED <<workflowVars, clientVars, maxRequests, windowMs, windows,
                 checkLog>>

LimiterNext ==
  \/ \E toolName \in LimiterTools : check(toolName)
  \/ LimiterTick

LimiterSpec == LimiterInit /\ [][LimiterNext]_vars

(***************************************************************************)
(* fetchApi (src/client.ts)                                                 *)
(***************************************************************************)
ClientTickMs == 1000

REQUEST_TIMEOUT_MS == 15000
RETRY_DELAY_MS == 2000

HttpErrorStatuses == {400, 404, 408, 429, 500, 503}

\* how the fetch of one attempt can end: a 2xx response with a JSON body, a
\* 2xx response whose body response.json() cannot parse, a response that is
\* not ok, a rejection of fetch (network), the abort by the request timer
FetchOutcomes ==
  {[kind |-> "ok", status |-> 200], [kind |-> "bad json", status |-> 200],
   [kind |-> "network", status |-> 0], [kind |-> "abort", status |-> 0]}
  \cup {[kind |-> "http", status |-> st] : st \in HttpErrorStatuses}

ApiError(statusCode, message) ==
  [class |-> "ApiError", statusCode |-> statusCode, message |-> message]

\* lines 57-105: value or ApiError of one attempt
fetchApiOnce(outcome) ==
  IF outcome.kind = "ok" THEN [ok |-> TRUE, error |-> Null]
  ELSE IF outcome.kind = "http"
    THEN [ok |-> FALSE, error |-> ApiError(outcome.status, <<"body">>)]
  ELSE IF outcome.kind = "abort"
    THEN [ok |-> FALSE, error |-> ApiError(408, <<"Request timed out">>)]
  ELSE IF outcome.kind = "network"
    THEN [ok |-> FALSE, error |-> ApiError(500, <<"fetch failed">>)]
  ELSE [ok |-> FALSE, error |-> ApiError(500, <<"Unexpected token">>)]

\* every error taken as retryable
isRetryableError_Always(error) == TRUE

\* lines 37-51
isRetryableError(error) ==
  IF error.class = "ApiError"
    THEN error.statusCode >= 500 \/ error.statusCode = 408
    ELSE \/ Includes(error.message, <<"fetch failed">>)
         \/ Includes(error.message, <<"ECONNREFUSED">>)
         \/ Includes(error.message, <<"ENOTFOUND">>)
         \/ Includes(error.message, <<"ETIMEDOUT">>)

ClientInit ==
  /\ WorkflowIdle
  /\ LimiterIdle
  /\ ClientIdle

\* line 117: fetchApi is called and makes its first attempt
fetchApi ==
  /\ fetchPc = "idle"
  /\ fetchPc' = "attempt 1"
  /\ attempts' = <<[startedAt |-> fetchNow, error |-> Null]>>
  /\ UNCHANGED <<workflowVars, limiterVars, fetchNow, wakeAt, fetchOutcome>>

\* the request timer of line 67 aborts a fetch that is REQUEST_TIMEOUT_MS old
CanSettle(outcome) ==
  LET age == fetchNow - attempts[Len(attempts)].startedAt
  IN  IF outcome.kind = "abort" THEN age >= REQUEST_TIMEOUT_MS
      ELSE age < REQUEST_TIMEOUT_MS

Settled(outcome) ==
  [attempts EXCEPT ![Len(attempts)].error = fetchApiOnce(outcome).error]

\* lines 116-123: the first attempt ends
FirstAttemptSettles(outcome) ==
  /\ fetchPc = "attempt 1"
  /\ CanSettle(outcome)
  /\ attempts' = Settled(outcome)
  /\ LET once == fetchApiOnce(outcome)
     IN  IF once.ok
           THEN /\ fetchPc' = "returned"
                /\ fetchOutcome' = [value |-> "json"]
                /\ wakeAt' = wakeAt
           ELSE IF isRetryableError(once.error)
             THEN /\ fetchPc' = "sleeping"
                  /\ wakeAt' = fetchNow + RETRY_DELAY_MS
                  /\ fetchOutcome' = fetchOutcome
             ELSE /\ fetchPc' = "raised"
                  /\ fetchOutcome' = [error |-> once.error]
                  /\ wakeAt' = wakeAt
  /\ UNCHANGED <<workflowVars, limiterVars, fetchNow>>

\* lines 120-121: the timer of sleep fires and the second attempt is made
SleepEnds ==
  /\ fetchPc = "sleeping"
  /\ fetchNow >= wakeAt
  /\ fetchPc' = "attempt 2"
  /\ wakeAt' = -1
  /\ attempts' = Append(attempts, [startedAt |-> fetchNow, error |-> Null])
  /\ UNCHANGED <<workflowVars, limiterVars, fetchNow, fetchOutcome>>

\* line 121: the promise of the second attempt is returned as it is
SecondAttemptSettles(outcome) ==
  /\ fetchPc = "attempt 2"
  /\ CanSettle(outcome)
  /\ attempts' = Settled(outcome)
  /\ LET once == fetchApiOnce(outcome)
     IN  IF once.ok
           THEN fetchPc' = "returned" /\ fetchOutcome' = [value |-> "json"]
           ELSE fetchPc' = "raised" /\ fetchOutcome' = [error |-> once.error]
  /\ UNCHANGED <<workflowVars, limiterVars, fetchNow, wakeAt>>

\* time passes while a fetch or the sleep is pending
ClientTick ==
  /\ \/ /\ fetchPc \in {"attempt 1", "attempt 2"}
        /\ fetchNow - attempts[Len(attempts)].startedAt < REQUEST_TIMEOUT_MS
     \/ fetchPc = "sleeping" /\ fetchNow < wakeAt
  /\ fetchNow' = fetchNow + ClientTickMs
  /\ UNCHANGED <<workflowVars, limiterVars, fetchPc, wakeAt, attempts,
                 fetchOutcome>>

ClientNext ==
  \/ fetchApi
  \/ \E outcome \in FetchOutcomes : FirstAttemptSettles(outcome)
  \/ SleepEnds
  \/ \E outcome \in FetchOutcomes : SecondAttemptSettles(outcome)
  \/ ClientTick

ClientSpec == ClientInit /\ [][ClientNext]_vars

(***************************************************************************)
(* Properties                                                               *)
(***************************************************************************)
Indexes == 0..(totalTools - 1)

\* the providers referenced by auto-verifiable items of the checklist
Scheduled ==
  {t \in Tier1ToolName : \E k \in 1..Len(checkItems) :
      checkItems[k].autoVerifiable /\ checkItems[k].tier1Tool = t}

References(t) ==
  {k \in 1..Len(checkItems) :
      checkItems[k].autoVerifiable /\ checkItems[k].tier1Tool = t}

Returned == pc = "done"

\* C1: in one run every provider is invoked at most once, however many
\* checklist items reference it and whatever the providers do.
C1_AtMostOnce == \A t \in Tier1ToolName : invoked[t] <= 1

C1_Witness ==
  /\ Returned
  /\ \E t \in Tier1ToolName :
       Cardinality(References(t)) >= 2 /\ invoked[t] = 1

\* C2 as stated: a provider referenced by k >= 1 (auto-verifiable) items has
\* been invoked exactly once when the run returns.
C2_ExactlyOnceAlways ==
  Returned => \A t \in Scheduled : invoked[t] = 1

\* C2 amended: when the run returns, a scheduled provider was invoked exactly
\* once if the dispatch loop reached it and not at all if the loop was cut
\* short before it (deadline passed, or a result carrying the timeout marker).
C2_ExactlyOnceUnlessSkipped ==
  Returned =>
    /\ \A t \in Tier1ToolName \ Scheduled : invoked[t] = 0
    /\ \A t \in Scheduled : \E j \in Indexes :
         /\ ToolAt(j) = t
         /\ invoked[t] = IF j \in DOMAIN skippedBy THEN 0 ELSE 1

C2_Witness ==
  /\ Returned
  /\ skippedBy = <<>>
  /\ \E t \in Scheduled :
       /\ Cardinality(References(t)) >= 2
       /\ invoked[t] = 1
       /\ ~HasError(toolResults[t])

AllProvidersFailed == \A t \in Scheduled : HasError(toolResults[t])

ItemStatus(k) == report.checklist.items[k].status

CompleteReport ==
  /\ report # NoReport
  /\ report.score \in 0..100
  /\ DOMAIN report.results = Scheduled
  /\ report.checklist.total = Len(checkItems)
  /\ DOMAIN report.checklist.items = 1..Len(checkItems)
  /\ \A k \in 1..Len(checkItems) :
       ItemStatus(k) \in {"pass", "warn", "fail", "error", "skipped", "manual"}

\* C3 as stated: provider failures never make runWorkflow throw, the report
\* is complete, and under total provider failure the score is 0 and every
\* auto-verifiable item has status error.
C3_AllAutoItemsError ==
  /\ thrownBy # "provider"
  /\ Returned =>
       /\ CompleteReport
       /\ AllProvidersFailed =>
            /\ report.score = 0
            /\ \A k \in 1..Len(checkItems) :
                 checkItems[k].autoVerifiable => ItemStatus(k) = "error"

\* C3 amended: provider failures never make runWorkflow throw, the report is
\* complete, and under total provider failure the score is 0 and every
\* auto-verifiable item that has both tier1Tool and evaluate has status error
\* (an auto-verifiable item lacking either is skipped).
C3_ScorableItemsError ==
  /\ thrownBy # "provider"
  /\ Returned =>
       /\ CompleteReport
       /\ AllProvidersFailed =>
            /\ report.score = 0
            /\ \A k \in 1..Len(checkItems) :
                 checkItems[k].autoVerifiable =>
                   ItemStatus(k) =
                     IF checkItems[k].evaluate # "none"
                          /\ checkItems[k].tier1Tool # "none"
                       THEN "error" ELSE "skipped"

C3_Witness ==
  /\ Returned
  /\ AllProvidersFailed
  /\ Cardinality(Scheduled) = 2
  /\ \E k \in 1..Len(checkItems) : ItemStatus(k) = "error"
  /\ \E k \in 1..Len(checkItems) : ItemStatus(k) = "skipped"
  /\ \E j \in DOMAIN raceResult :
       raceResult[j] = [error |-> UnknownErrorMessage]

\* the workflow timed out: the deadline had passed at the turn of a provider,
\* or the timer won a race
WorkflowTimedOut ==
  \/ timedOutAt >= 0
  \/ \E j \in DOMAIN turnAt : turnAt[j] >= workflowDeadline

\* C4: a provider that throws or rejects, with any message, does not stop
\* the workflow; providers are skipped only after a workflow timeout.
C4_SkippedOnlyAfterTimeout ==
  (skippedBy # <<>>) => WorkflowTimedOut

\* C5: if the deadline has passed when the turn of provider j arrives, j and
\* all later providers hold the timeout-skip failure and were never invoked,
\* and every earlier provider holds the value its race resolved to.
C5_DeadlineSkip ==
  \A j \in DOMAIN turnAt :
    turnAt[j] >= workflowDeadline =>
      /\ \A m \in j..(totalTools - 1) :
           /\ toolResults[ToolAt(m)] = [error |-> SkipMessage]
           /\ invoked[ToolAt(m)] = 0
      /\ \A m \in 0..(j - 1) :
           /\ m \in DOMAIN raceResult
           /\ toolResults[ToolAt(m)] = raceResult[m]

C5_Witness ==
  /\ Returned
  /\ 1 \in DOMAIN turnAt
  /\ turnAt[1] >= workflowDeadline
  /\ ~HasError(toolResults[ToolAt(0)])

\* C6: when the timer wins the race of provider j, j holds the
\* timeout-exceeded failure, every later provider holds the timeout-skip
\* failure without having been invoked, and the loop has stopped at j.
C6_TimeoutDuringExecution ==
  timedOutAt >= 0 =>
    /\ toolResults[ToolAt(timedOutAt)] = [error |-> ExceededMessage]
    /\ \A m \in (timedOutAt + 1)..(totalTools - 1) :
         /\ toolResults[ToolAt(m)] = [error |-> SkipMessage]
         /\ invoked[ToolAt(m)] = 0
    /\ i = timedOutAt
    /\ pc \in {"afterLoop", "awaitComplete", "done", "thrown"}

C6_Witness ==
  /\ Returned
  /\ timedOutAt = 0
  /\ totalTools = 2

\* C7: a provider call completing after the timer has fired changes nothing
\* in the results map, where that provider keeps the timeout failure (and
\* the returned report is not changed either).
C7_LateCompletionDiscarded ==
  [][lateResult' # lateResult =>
       /\ toolResults' = toolResults
       /\ report' = report
       /\ toolResults[ToolAt(timedOutAt)] = [error |-> ExceededMessage]]_vars

C7_Witness ==
  /\ timedOutAt >= 0
  /\ timedOutAt \in DOMAIN lateResult
  /\ ~HasError(lateResult[timedOutAt].value)
  /\ toolResults[ToolAt(timedOutAt)] = [error |-> ExceededMessage]
  /\ Returned

\* C8: at most one provider call of a run is in flight at any time: a
\* provider is invoked only when no earlier call is unsettled, which includes
\* a call abandoned by a timeout.
C8_Sequential ==
  /\ [](Cardinality(inFlight) <= 1)
  /\ [][invocationOrder' # invocationOrder => inFlight = {}]_vars

C8_Witness ==
  /\ Len(invocationOrder) = 2
  /\ inFlight = {1}
  /\ pc = "race"

\* the canonical order as the specification states it
C9_CanonicalOrder ==
  <<"ogp", "headings", "alt", "links", "siteConfig", "securityHeaders",
    "cache", "schema", "redirect", "image", "speed">>

IsPrefix(a, b) == Len(a) <= Len(b) /\ SubSeq(b, 1, Len(a)) = a

\* C9: providers are invoked in the canonical order restricted to the
\* scheduled set, whatever the order of the checklist items.
C9_InvocationOrder ==
  IsPrefix(invocationOrder,
           SelectSeq(C9_CanonicalOrder, LAMBDA t : t \in Scheduled))

C9_Witness ==
  /\ Len(checkItems) = 2
  /\ checkItems[1].tier1Tool = "speed"
  /\ checkItems[2].tier1Tool = "cache"
  /\ invocationOrder = <<"cache", "speed">>

LoopEnded == pc \in {"afterLoop", "awaitComplete", "done"}

\* C11: once the dispatch loop has ended, the results map holds one result,
\* a success or a failure, for every scheduled provider and nothing for any
\* other provider, and the results section of a returned report has exactly
\* the scheduled providers as its keys.
C11_ResultPerScheduledProvider ==
  /\ LoopEnded =>
        \A t \in Tier1ToolName :
          IF t \in Scheduled
            THEN /\ toolResults[t] # Null
                 /\ ("data" \in DOMAIN toolResults[t])
                      # ("error" \in DOMAIN toolResults[t])
            ELSE toolResults[t] = Null
  /\ Returned => DOMAIN report.results = Scheduled

\* a returned run of two scheduled providers, the first with data and the
\* second skipped by a loop exit
C11_Witness ==
  /\ Returned
  /\ totalTools = 2
  /\ ~HasError(toolResults[ToolAt(0)])
  /\ toolResults[ToolAt(1)] = SkipError
  /\ invoked[ToolAt(1)] = 0

Defs == 1..Len(checkItems)

\* the declared items that can be scored (lines 746-748) and whose reported
\* status is not error
ScoredPositions ==
  {k \in Defs : /\ checkItems[k].autoVerifiable
                /\ checkItems[k].evaluate # "none"
                /\ checkItems[k].tier1Tool # "none"
                /\ ItemStatus(k) # "error"}

\* r is the rational n / d (d > 0) rounded to the nearest integer, the half
\* going up
IsRounded(r, n, d) == 2 * r * d - d <= 2 * n /\ 2 * n < 2 * r * d + d

HalfWeight(w) == CHOOSE r \in 0..w : IsRounded(r, w, 2)

Contribution(k) ==
  IF ItemStatus(k) = "pass" THEN checkItems[k].weight
  ELSE IF ItemStatus(k) = "warn" THEN HalfWeight(checkItems[k].weight)
  ELSE 0

RECURSIVE SumOver(_, _)
SumOver(S, f) ==
  IF S = {} THEN 0
  ELSE LET k == CHOOSE x \in S : TRUE IN f[k] + SumOver(S \ {k}, f)

ExpectedMaxScore == SumOver(ScoredPositions, [k \in Defs |-> checkItems[k].weight])

ExpectedEarned == SumOver(ScoredPositions, [k \in Defs |-> Contribution(k)])

\* C12: an item reported with status error is not among the items the score
\* is computed from, so whatever its weight it adds nothing to maxScore and
\* nothing to the earned score: both are the sums over the scorable items
\* whose status is not error.
C12_ErrorItemsNeverScore ==
  Returned =>
    LET ev == evaluableItems(checkItems, report.checklist.items)
    IN  /\ \A k \in Defs :
             ItemStatus(k) = "error" =>
               \A m \in 1..Len(ev) : ev[m] # checkItems[k]
        /\ SumWeights(ev) = ExpectedMaxScore
        /\ Earned(ev, report.checklist.items) = ExpectedEarned

\* an item of weight 10 in error next to a passing item: the score is 100
C12_Witness ==
  /\ Returned
  /\ \E k, m \in Defs :
       /\ ItemStatus(k) = "error" /\ checkItems[k].weight = 10
       /\ checkItems[k].evaluate # "none"
       /\ ItemStatus(m) = "pass" /\ checkItems[m].weight > 0
  /\ report.score = 100

\* C13: the score is earned / maxScore * 100 rounded to the nearest integer
\* when maxScore > 0 and 0 otherwise, maxScore being the weights of the
\* evaluable items and earned the full weight of a pass, half the weight
\* rounded of a warn and nothing of a fail.
C13_ScoreFormula ==
  Returned =>
    IF ExpectedMaxScore > 0
      THEN /\ report.score \in 0..100
           /\ IsRounded(report.score, 100 * ExpectedEarned, ExpectedMaxScore)
      ELSE report.score = 0

\* weights 10 and 10, one pass and one warn: 75
C13_Witness ==
  /\ Returned
  /\ Len(checkItems) = 2
  /\ checkItems[1].weight = 10 /\ checkItems[2].weight = 10
  /\ {ItemStatus(1), ItemStatus(2)} = {"pass", "warn"}
  /\ report.score = 75

\* C14: whatever the weights (0 included) and the statuses, the score is an
\* integer from 0 to 100, and it is 0 whenever maxScore is 0.
C14_ScoreRange ==
  Returned =>
    /\ report.score \in 0..100
    /\ ExpectedMaxScore = 0 => report.score = 0

\* the only scorable item has weight 0 and passes: maxScore 0, score 0
C14_Witness ==
  /\ Returned
  /\ \E k \in ScoredPositions :
       checkItems[k].weight = 0 /\ ItemStatus(k) = "pass"
  /\ ExpectedMaxScore = 0
  /\ report.score = 0

AutoOnly(items) == SelectSeq(items, LAMBDA item : item.autoVerifiable)

\* C15: the score of a checklist is the score of the same checklist with its
\* autoVerifiable = false items taken out (one manual item and one passing
\* auto item score 100), and checklist.manual counts those items.
C15_ManualItemsExcluded ==
  Returned =>
    /\ report.score =
         Score(AutoOnly(checkItems), EvaluateAll(AutoOnly(checkItems),
                                                 toolResults))
    /\ report.checklist.manual =
         Cardinality({k \in Defs : ~checkItems[k].autoVerifiable})
    /\ (/\ Len(checkItems) = 2
        /\ \E k, m \in Defs : /\ ~checkItems[k].autoVerifiable
                              /\ checkItems[m].autoVerifiable
                              /\ checkItems[m].weight > 0
                              /\ ItemStatus(m) = "pass")
       => report.score = 100 /\ report.checklist.manual = 1

\* a manual item that names a provider and has an evaluate, next to a passing
\* auto item
C15_Witness ==
  /\ Returned
  /\ Len(checkItems) = 2
  /\ \E k, m \in Defs : /\ ~checkItems[k].autoVerifiable
                        /\ checkItems[k].evaluate # "none"
                        /\ checkItems[k].tier1Tool # "none"
                        /\ checkItems[m].autoVerifiable
                        /\ ItemStatus(m) = "pass"
  /\ report.score = 100
  /\ report.checklist.manual = 1

\* C16: every item with autoVerifiable = false is reported with status
\* manual and the fixed manual detail, whatever its tier1Tool and evaluate
\* and whatever the providers returned.
C16_ManualItems ==
  Returned =>
    \A k \in Defs :
      ~checkItems[k].autoVerifiable =>
        /\ ItemStatus(k) = "manual"
        /\ report.checklist.items[k].detail = ManualDetail

\* manual items with and without provider and evaluate; the provider of one
\* of them ran and failed
C16_Witness ==
  /\ Returned
  /\ \E k \in Defs :
       /\ ~checkItems[k].autoVerifiable
       /\ checkItems[k].evaluate # "none"
       /\ checkItems[k].tier1Tool # "none"
       /\ toolResults[checkItems[k].tier1Tool] # Null
       /\ HasError(toolResults[checkItems[k].tier1Tool])
       /\ ItemStatus(k) = "manual"

FailureMessages == {NetworkErrorMessage, ExceededMessage, SkipMessage}

\* C17: an auto-verifiable item with tier1Tool and evaluate whose provider
\* result is a failure is reported with status error and the message of
\* that failure as detail; its evaluate is not called, so even an evaluate
\* that would throw leaves the run returning.
C17_FailureBecomesError ==
  /\ Returned =>
       \A k \in Defs :
         (/\ checkItems[k].autoVerifiable
          /\ checkItems[k].evaluate # "none"
          /\ checkItems[k].tier1Tool # "none"
          /\ HasError(toolResults[checkItems[k].tier1Tool]))
         => /\ ItemStatus(k) = "error"
            /\ report.checklist.items[k].detail
                 = toolResults[checkItems[k].tier1Tool].error
  /\ thrownBy = "evaluate" =>
       \E k \in Defs : /\ evaluateThrows(checkItems[k])
                       /\ ~HasError(toolResults[checkItems[k].tier1Tool])

\* a returned report with an item whose evaluate would throw, its provider
\* having been skipped after the timeout
C17_Witness ==
  /\ Returned
  /\ \E k \in Defs :
       /\ evaluateThrows(checkItems[k])
       /\ toolResults[checkItems[k].tier1Tool] = SkipError
       /\ ItemStatus(k) = "error"
       /\ report.checklist.items[k].detail = SkipMessage

\* C18: for an auto-verifiable item whose provider result is a success,
\* evaluate is applied to the whole results map, status and detail of the
\* reported item are the ones it returns, and id, category and label are
\* the ones of the definition.
C18_EvaluationAdopted ==
  Returned =>
    \A k \in Defs :
      ReachesEvaluate(checkItems[k], toolResults) =>
        LET r == report.checklist.items[k]
            d == toolResults[ReadsTool(checkItems[k])]
        IN  /\ r.id = checkItems[k].id
            /\ r.category = checkItems[k].category
            /\ r.label = checkItems[k].label
            /\ IF d = Null \/ HasError(d)
                 THEN /\ r.status = "error"
                      /\ r.detail = <<ReadsTool(checkItems[k]),
                                      "data fetch failed">>
                 ELSE /\ r.status = d.data.grade
                      /\ r.detail = <<ReadsTool(checkItems[k]), d.data.grade>>

\* an item whose evaluate reads another provider's result than its own: the
\* two results differ and the verdict is the other provider's
C18_Witness ==
  /\ Returned
  /\ \E k \in Defs :
       /\ ReachesEvaluate(checkItems[k], toolResults)
       /\ ReadsTool(checkItems[k]) # checkItems[k].tier1Tool
       /\ toolResults[checkItems[k].tier1Tool].data.grade = "pass"
       /\ toolResults[ReadsTool(checkItems[k])] # Null
       /\ ~HasError(toolResults[ReadsTool(checkItems[k])])
       /\ ItemStatus(k) = "fail"

\* C19: no exception of an item's evaluate leaves runWorkflow: the run
\* returns a report in which the failure is a status.
C19_EvaluationNeverEscapes == thrownBy # "evaluate"

\* C20: checklist.items has one result per definition, in the order of
\* declaration (items[k].id = definitions[k].id), whatever the order the
\* providers ran in and whatever they returned, and checklist.total is the
\* number of definitions.
C20_DeclarationOrder ==
  Returned =>
    /\ Len(report.checklist.items) = Len(checkItems)
    /\ \A k \in Defs : report.checklist.items[k].id = checkItems[k].id
    /\ report.checklist.total = Len(checkItems)

\* the declaration order differs from the execution order, and a manual item
\* stands between auto items
C20_Witness ==
  /\ Returned
  /\ Len(checkItems) = 2
  /\ checkItems[1].id # checkItems[2].id
  /\ \/ /\ checkItems[1].tier1Tool = "speed" /\ checkItems[2].tier1Tool = "links"
        /\ invocationOrder = <<"links", "speed">>
     \/ /\ ~checkItems[1].autoVerifiable /\ checkItems[2].autoVerifiable
        /\ invocationOrder # <<>>

EventKind(k) == sentEvents[k].message.kind

ProgressEvents == {k \in 1..Len(sentEvents) : EventKind(k) = "progress"}

CompletionEvents == {k \in 1..Len(sentEvents) : EventKind(k) = "complete"}

\* C21 as stated: the event of a provider is sent once the outcome of that
\* provider is known, and every scheduled provider has one.
C21_EventAfterOutcome ==
  /\ \A k \in ProgressEvents : toolResults[sentEvents[k].message.tool] # Null
  /\ (Returned /\ hasSendProgress) => Cardinality(ProgressEvents) = totalTools

\* C21: the calls of the external sink are, in this order, one start event
\* with progress 0, one event with progress = loop index + 1 for each
\* provider that is invoked, sent before the provider is invoked (a provider
\* skipped after the timeout has none), and one completion event with
\* progress = number of scheduled providers + 1.
C21_EventOrder ==
  hasSendProgress =>
    /\ pc # "idle" =>
         /\ Len(sentEvents) >= 1
         /\ EventKind(1) = "start" /\ sentEvents[1].progress = 0
    /\ \A k \in 2..Len(sentEvents) :
         \/ /\ EventKind(k) = "progress"
            /\ sentEvents[k].progress = k - 1
            /\ k - 1 <= totalTools
            /\ sentEvents[k].message.tool = ToolAt(k - 2)
         \/ /\ EventKind(k) = "complete"
            /\ k = Len(sentEvents)
            /\ sentEvents[k].progress = totalTools + 1
    /\ pc = "awaitProgress" =>
         /\ Cardinality(ProgressEvents) = Len(invocationOrder) + 1
         /\ sentEvents[Len(sentEvents)].message.tool = ToolAt(i)
         /\ invoked[ToolAt(i)] = 0
         /\ toolResults[ToolAt(i)] = Null
    /\ pc \in {"loop", "race", "afterLoop", "awaitComplete", "done"} =>
         Cardinality(ProgressEvents) = Len(invocationOrder)
    /\ Returned => Cardinality(CompletionEvents) = 1

\* a returned run of two scheduled providers, the second skipped after the
\* timeout: events with progress 0, 1 and 3
C21_Witness ==
  /\ Returned
  /\ hasSendProgress
  /\ totalTools = 2
  /\ invoked[ToolAt(1)] = 0
  /\ Len(sentEvents) = 3
  /\ sentEvents[2].progress = 1
  /\ sentEvents[3].progress = 3

\* C22 as stated: the total of every event is the number of scheduled
\* providers.
C22_TotalIsProviderCount ==
  \A k \in 1..Len(sentEvents) : sentEvents[k].total = totalTools

\* C22: every event of a run carries the same total, the number of providers
\* scheduled for the run plus one.
C22_TotalIsProviderCountPlusOne ==
  \A k \in 1..Len(sentEvents) : sentEvents[k].total = totalTools + 1

\* a returned run with start, two provider events and completion, total 3
C22_Witness ==
  /\ Returned
  /\ hasSendProgress
  /\ totalTools = 2
  /\ Len(sentEvents) = 4
  /\ \A k \in 1..4 : sentEvents[k].total = 3

ErrorItems == {k \in Defs : ItemStatus(k) = "error"}

UnevaluatedParts ==
  {k \in 1..Len(report.summary) : report.summary[k].part = "unevaluated"}

\* C24: when n >= 1 items of the report have status error, its summary has
\* the part saying that n items are unevaluated; a checklist of one item
\* whose provider rejects gives status error, score 0 and a summary with
\* 1 unevaluated item.
C24_SummaryDisclosesUnevaluated ==
  Returned =>
    /\ Cardinality(ErrorItems) >= 1 =>
         /\ Cardinality(UnevaluatedParts) = 1
         /\ \A k \in UnevaluatedParts :
              report.summary[k].count = Cardinality(ErrorItems)
    /\ (/\ Len(checkItems) = 1
        /\ checkItems[1].autoVerifiable
        /\ checkItems[1].evaluate # "none"
        /\ HasError(toolResults[checkItems[1].tier1Tool]))
       => /\ ItemStatus(1) = "error"
          /\ report.score = 0
          /\ \E k \in UnevaluatedParts : report.summary[k].count = 1

\* the single item's provider rejected with the network error
C24_Witness ==
  /\ Returned
  /\ Len(checkItems) = 1
  /\ toolResults[checkItems[1].tier1Tool] = [error |-> NetworkErrorMessage]
  /\ ItemStatus(1) = "error"
  /\ report.score = 0
  /\ \E k \in UnevaluatedParts : report.summary[k].count = 1

\* the checks of toolName allowed before the n-th call that are less than
\* windowMs old at time `at`
AllowedWithin(toolName, n, at) ==
  {m \in 1..(n - 1) : /\ checkLog[m].allowed
                      /\ checkLog[m].toolName = toolName
                      /\ checkLog[m].at > at - windowMs}

\* C25: a call of check(tool) answers true exactly when fewer than
\* maxRequests of the earlier allowed checks of the same tool lie within the
\* last windowMs; so no window of length windowMs holds more than
\* maxRequests allowed checks of one tool, a denied check and a check of
\* another tool consume nothing, and a limited tool is allowed again when
\* the window of its earlier requests has expired.
C25_CheckAllowsWithinQuota ==
  /\ \A n \in 1..Len(checkLog) :
       checkLog[n].allowed <=>
         Cardinality(AllowedWithin(checkLog[n].toolName, n, checkLog[n].at))
           < maxRequests
  /\ \A toolName \in LimiterTools, end \in 0..limiterNow :
       Cardinality(AllowedWithin(toolName, Len(checkLog) + 1, end)
                     \ {m \in 1..Len(checkLog) : checkLog[m].at > end})
         <= maxRequests

\* one tool allowed, then denied at once, another tool allowed meanwhile,
\* and the first tool allowed again exactly windowMs after its request
C25_Witness ==
  /\ Len(checkLog) = 4
  /\ maxRequests = 1
  /\ checkLog[1].toolName = checkLog[2].toolName
  /\ checkLog[1].allowed /\ ~checkLog[2].allowed
  /\ checkLog[3].toolName # checkLog[1].toolName /\ checkLog[3].allowed
  /\ checkLog[4].toolName = checkLog[1].toolName /\ checkLog[4].allowed
  /\ checkLog[4].at = checkLog[1].at + windowMs

Finished == fetchPc \in {"returned", "raised"}

Retryable(error) == error.statusCode >= 500 \/ error.statusCode = 408

\* C26: a call of fetchApi makes at most two attempts; the second is made
\* only after a first attempt that failed with a retryable error (status
\* >= 500, 408, or a network error, which fetchApiOnce turns into 500) and
\* not before the retry delay has passed; a non-retryable error is raised
\* after the single attempt, and the error of the second attempt is raised
\* with no further attempt.
C26_AtMostOneRetry ==
  /\ Len(attempts) <= 2
  /\ Len(attempts) = 2 =>
       /\ attempts[1].error # Null
       /\ Retryable(attempts[1].error)
       /\ attempts[2].startedAt >= attempts[1].startedAt + RETRY_DELAY_MS
  /\ Finished =>
       /\ Len(attempts) = 2 <=>
            (attempts[1].error # Null /\ Retryable(attempts[1].error))
       /\ fetchPc = "returned" <=> attempts[Len(attempts)].error = Null
       /\ fetchPc = "raised" =>
            fetchOutcome = [error |-> attempts[Len(attempts)].error]

\* a 503 answered again by a 503: raised after the second attempt
C26_Witness ==
  /\ fetchPc = "raised"
  /\ Len(attempts) = 2
  /\ attempts[1].error.statusCode = 503
  /\ attempts[2].error.statusCode = 503
  /\ fetchOutcome.error.statusCode = 503

\* the outcome lines of provider t in the local sink
CompletionLines(t) ==
  {k \in 1..Len(localLog) : /\ localLog[k].kind \in {"tool ok", "tool error"}
                            /\ localLog[k].tool = t}

\* the line announcing the provider at loop index j
AnnouncementLines(j) ==
  {k \in 1..Len(localLog) : /\ localLog[k].kind = "progress"
                            /\ localLog[k].n = j + 1}

\* C27: with a local sink, every provider whose race has ended has exactly
\* one outcome line there, an error line exactly when its result is a
\* failure; the line is there once the result is recorded and before the
\* next provider is announced and invoked; a provider that was not invoked
\* (skipped after the timeout) has none.
C27_OneOutcomeLinePerInvokedProvider ==
  hasOnProgress =>
    /\ \A j \in Indexes :
         IF j \in DOMAIN raceResult
           THEN /\ Cardinality(CompletionLines(ToolAt(j))) = 1
                /\ toolResults[ToolAt(j)] = raceResult[j]
                /\ \A k \in CompletionLines(ToolAt(j)) :
                     /\ (localLog[k].kind = "tool error")
                          <=> HasError(raceResult[j])
                     /\ \A m \in AnnouncementLines(j + 1) : k < m
           ELSE CompletionLines(ToolAt(j)) = {}
    /\ \A n \in 1..(Len(invocationOrder) - 1) :
         CompletionLines(invocationOrder[n]) # {}
    /\ \A t \in Tier1ToolName : invoked[t] = 0 => CompletionLines(t) = {}
    /\ Returned =>
         \A t \in Tier1ToolName :
           invoked[t] = 1 => Cardinality(CompletionLines(t)) = 1

\* a returned run: the first provider's race was won by the timer (error
\* line), the second was skipped and has no line
C27_Witness ==
  /\ Returned
  /\ hasOnProgress
  /\ totalTools = 2
  /\ timedOutAt = 0
  /\ invoked[ToolAt(1)] = 0
  /\ toolResults[ToolAt(1)] = SkipError
  /\ Cardinality(CompletionLines(ToolAt(0))) = 1
  /\ CompletionLines(ToolAt(1)) = {}

Scorable(k) ==
  /\ checkItems[k].autoVerifiable
  /\ checkItems[k].evaluate # "none"
  /\ checkItems[k].tier1Tool # "none"

\* the first definition, in declaration order, with the id of definition k
FirstWithId(k) ==
  CHOOSE m \in Defs :
    /\ checkItems[m].id = checkItems[k].id
    /\ \A n \in Defs : checkItems[n].id = checkItems[k].id => m <= n

\* C28 as stated: for every scorable item the result found by its id is the
\* result produced for that definition, also when two items share an id.
C28_OwnResultUsed ==
  Returned =>
    \A k \in Defs :
      Scorable(k) =>
        FindById(report.checklist.items, checkItems[k].id)
          = report.checklist.items[k]

\* C28: the status used for a scorable item is the status of the first
\* result, in declaration order, that carries the item's id: the item's own
\* result when no earlier item has its id, the earlier item's result
\* otherwise; maxScore, earned and the score are computed from those.
C28_FirstResultWithIdUsed ==
  Returned =>
    LET used == [k \in Defs |-> ItemStatus(FirstWithId(k))]
        counted == {k \in Defs : Scorable(k) /\ used[k] # "error"}
        maxScore == SumOver(counted, [k \in Defs |-> checkItems[k].weight])
        earned == SumOver(counted,
                    [k \in Defs |->
                       IF used[k] = "pass" THEN checkItems[k].weight
                       ELSE IF used[k] = "warn"
                         THEN HalfWeight(checkItems[k].weight)
                       ELSE 0])
    IN  /\ \A k \in Defs :
             Scorable(k) =>
               /\ FindById(report.checklist.items, checkItems[k].id)
                    = report.checklist.items[FirstWithId(k)]
               /\ FirstWithId(k) = k =>
                    FindById(report.checklist.items, checkItems[k].id)
                      = report.checklist.items[k]
        /\ IF maxScore > 0
             THEN /\ report.score \in 0..100
                  /\ IsRounded(report.score, 100 * earned, maxScore)
             ELSE report.score = 0

\* two items with the id "links": the first passes, the provider of the
\* second failed; the second is reported as error and scored as a pass
C28_Witness ==
  /\ Returned
  /\ Len(checkItems) = 2
  /\ checkItems[1].id = checkItems[2].id
  /\ Scorable(1) /\ Scorable(2)
  /\ ItemStatus(1) = "pass"
  /\ ItemStatus(2) = "error"
  /\ report.score = 100
  /\ report.checklist.errors = 1

\* C29: when evaluation begins, every auto-verifiable item with tier1Tool
\* and evaluate has a result of its provider in the results map, so no item
\* of any report, timed-out runs included, carries the detail saying that
\* the provider did not run.
C29_ProviderResultPresent ==
  /\ LoopEnded =>
       \A k \in Defs :
         Scorable(k) => toolResults[checkItems[k].tier1Tool] # Null
  /\ Returned =>
       \A k \in Defs : report.checklist.items[k].detail # ToolNotRunMessage

\* a timed-out run: the item of the skipped provider is an error with the
\* skip message as detail
C29_Witness ==
  /\ Returned
  /\ timedOutAt = 0
  /\ \E k \in Defs :
       /\ Scorable(k)
       /\ invoked[checkItems[k].tier1Tool] = 0
       /\ ItemStatus(k) = "error"
       /\ report.checklist.items[k].detail = SkipMessage

====
